---- MODULE Spec2Model ----
(***************************************************************************)
(* Model of the two CI helpers of the repository:                          *)
(*   - workflow-utils.js: findBotComment / postOrUpdateComment, in its two *)
(*     shipped copies (src/unnamed/part_000 lines 1-177 and                *)
(*     src/.github/scripts/workflow-utils.js);                             *)
(*   - gas-report.js (src/unnamed/part_000 lines 178-452): parseGasDiff,   *)
(*     formatGasValue, calculatePercentageChange, generateMarkdownTable,   *)
(*     generateSummary, generateFullReport, generateReportFromFile and the *)
(*     CLI dispatch.                                                       *)
(*                                                                         *)
(* Strings are sequences of one-token strings.  A token is one character   *)
(* ("+", ":", "(", " ", "7", ...) or a run of letters ("Token", "gas"),    *)
(* which every pattern of the code treats like a single letter.  A text is *)
(* the sequence of its lines, i.e. what split('\n') returns for it.        *)
(* An optional JavaScript value (null / undefined / a value) is the empty  *)
(* sequence or a one-element sequence.                                     *)
(***************************************************************************)
EXTENDS Integers, Sequences, FiniteSets, TLC

VARIABLES
  \* ---- PR comment helper (workflow-utils.js) ----
  copy,        \* which shipped copy of workflow-utils.js runs
  marker,      \* commentMarker argument
  actor,       \* the account the API client is authenticated as
  comments,    \* the PR's comment list held by the API
  comments0,   \* the PR's comment list before the first invocation
  nextId,      \* id the API gives to the next created comment
  pcC,         \* per invocation: position in postOrUpdateComment
  existing,    \* per invocation: local existingComment
  bodyArg,     \* per invocation: body argument
  calls,       \* number of postOrUpdateComment invocations started
  \* ---- gas-report.js, pure functions ----
  diffOutput,  \* argument of parseGasDiff / generateFullReport
  prInfo,      \* argument of generateFullReport
  stage,       \* which functions have been applied
  parsed,      \* value returned by parseGasDiff
  changes,     \* the changes array (sorted in place by generateMarkdownTable)
  limit,       \* limit argument of the last generateMarkdownTable call
  table,       \* value returned by generateMarkdownTable
  summary,     \* value returned by generateSummary
  report,      \* value returned by generateFullReport
  \* ---- gas-report.js, CLI run ----
  command,     \* process.argv[2]
  env,         \* BASE_BRANCH / HEAD_BRANCH / HEAD_SHA
  diffFile,    \* gas-diff.txt: absent or its text
  reportFile,  \* gas-report.md: absent or its content
  reportFile0, \* gas-report.md before the run
  diffRead,    \* whether the run has read gas-diff.txt
  pc,          \* position of the CLI run
  exitCode     \* exit status once the run has ended

commentVars == <<copy, marker, actor, comments, comments0, nextId, pcC, existing, bodyArg, calls>>
fnVars == <<diffOutput, prInfo, stage, parsed, changes, limit, table, summary, report>>
cliVars == <<command, env, diffFile, reportFile, reportFile0, diffRead, pc, exitCode>>
vars == <<commentVars, fnVars, cliVars>>

\* ---------------------------------------------------------------- bounds
MaxInitComments == 2
MaxInvocations == 3
MaxLines == 2
MaxFileLines == 1
BigLen == 25

\* ------------------------------------------------------- generic helpers
Min(a, b) == IF a <= b THEN a ELSE b
Abs(n) == IF n < 0 THEN -n ELSE n
Last(s) == s[Len(s)]
SeqsUpTo(S, n) == UNION {[1..k -> S] : k \in 0..n}
NonEmptySeqsUpTo(S, n) == UNION {[1..k -> S] : k \in 1..n}

\* String.prototype.includes: needle occurs as a contiguous run of hay.
Includes(hay, needle) ==
  \E i \in 1..(Len(hay) + 1) :
    /\ i + Len(needle) - 1 <= Len(hay)
    /\ SubSeq(hay, i, i + Len(needle) - 1) = needle

\* ====================================================================
\* PR comment helper
\* ====================================================================
Copies == {"part_000", "workflow-utils.js"}
Procs == {1, 2}

BotTag == <<"[bot]">>
GithubActionsLogin == <<"github-actions", "[bot]">>
Users ==
  { [login |-> GithubActionsLogin, type |-> "Bot"],
    [login |-> <<"ci-app">>, type |-> "Bot"],
    [login |-> GithubActionsLogin, type |-> "User"],
    [login |-> <<"renovate", "[bot]">>, type |-> "User"],
    [login |-> <<"alice">>, type |-> "User"] }

Marker == <<"a", "b">>
\* bodies a caller passes (each contains the marker) and bodies found on a PR
CallBodies == { <<"a", "b">>, <<"b", "a", "b">> }
OtherBodies == { <<"b", "a">> }
InitBodies == CallBodies \cup OtherBodies

\* part_000 lines 122-124
isBotLogin(comment) ==
  \/ comment.user.type = "Bot"
  \/ comment.user.login = GithubActionsLogin
  \/ Includes(comment.user.login, BotTag)

\* .github/scripts/workflow-utils.js line 107
isBotType(comment) == comment.user.type = "Bot"

isBot(cp, comment) ==
  IF cp = "part_000" THEN isBotLogin(comment) ELSE isBotType(comment)

hasMarker(comment, commentMarker) == Includes(comment.body, commentMarker)

\* Array.prototype.find: the first element satisfying the predicate, or undefined
findBotComment(cp, list, commentMarker) ==
  LET hits == {i \in 1..Len(list) : isBot(cp, list[i]) /\ hasMarker(list[i], commentMarker)}
  IN IF hits = {} THEN <<>>
     ELSE <<list[CHOOSE i \in hits : \A j \in hits : i <= j]>>

\* github.rest.issues.updateComment({comment_id, body})
updateComment(list, id, body) ==
  [i \in 1..Len(list) |-> IF list[i].id = id THEN [list[i] EXCEPT !.body = body] ELSE list[i]]

\* github.rest.issues.createComment({issue_number, body})
createComment(list, id, user, body) ==
  Append(list, [id |-> id, user |-> user, body |-> body])

InitCommentIdle ==
  /\ copy = "part_000"
  /\ marker = Marker
  /\ actor = [login |-> GithubActionsLogin, type |-> "Bot"]
  /\ comments = <<>>
  /\ comments0 = <<>>
  /\ nextId = 1
  /\ pcC = [p \in Procs |-> "idle"]
  /\ existing = [p \in Procs |-> <<>>]
  /\ bodyArg = [p \in Procs |-> <<>>]
  /\ calls = 0

Actors ==
  { [login |-> GithubActionsLogin, type |-> "Bot"],
    [login |-> GithubActionsLogin, type |-> "User"],
    [login |-> <<"alice">>, type |-> "User"] }

\* the comment lists a PR can hold before the helper runs: ids 1..n in list order
InitialComments ==
  { [i \in 1..Len(us) |-> [id |-> i, user |-> us[i][1], body |-> us[i][2]]] :
      us \in SeqsUpTo(Users \X InitBodies, MaxInitComments) }

InitComment ==
  /\ copy \in Copies
  /\ marker = Marker
  /\ actor \in Actors
  /\ comments \in InitialComments
  /\ comments0 = comments
  /\ nextId = Len(comments) + 1
  /\ pcC = [p \in Procs |-> "idle"]
  /\ existing = [p \in Procs |-> <<>>]
  /\ bodyArg = [p \in Procs |-> <<>>]
  /\ calls = 0

\* postOrUpdateComment, part_000 line 149: await findBotComment(...)
\* (listComments and the find over the returned list).  serial: the invocations
\* run one after another, so none starts while another is under way.
FindBotComment(p, serial) ==
  /\ pcC[p] = "idle"
  /\ calls < MaxInvocations
  /\ serial => \A q \in Procs : pcC[q] = "idle"
  /\ \E body \in CallBodies : bodyArg' = [bodyArg EXCEPT ![p] = body]
  /\ existing' = [existing EXCEPT ![p] = findBotComment(copy, comments, marker)]
  /\ pcC' = [pcC EXCEPT ![p] = "found"]
  /\ calls' = calls + 1
  /\ UNCHANGED <<copy, marker, actor, comments, comments0, nextId>>
  /\ UNCHANGED <<fnVars, cliVars>>

\* postOrUpdateComment, part_000 lines 151-159
UpdateComment(p) ==
  /\ pcC[p] = "found"
  /\ existing[p] # <<>>
  /\ comments' = updateComment(comments, existing[p][1].id, bodyArg[p])
  /\ pcC' = [pcC EXCEPT ![p] = "idle"]
  /\ UNCHANGED <<copy, marker, actor, comments0, nextId, existing, bodyArg, calls>>
  /\ UNCHANGED <<fnVars, cliVars>>

\* postOrUpdateComment, part_000 lines 160-169
CreateComment(p) ==
  /\ pcC[p] = "found"
  /\ existing[p] = <<>>
  /\ comments' = createComment(comments, nextId, actor, bodyArg[p])
  /\ nextId' = nextId + 1
  /\ pcC' = [pcC EXCEPT ![p] = "idle"]
  /\ UNCHANGED <<copy, marker, actor, comments0, existing, bodyArg, calls>>
  /\ UNCHANGED <<fnVars, cliVars>>

\* ====================================================================
\* gas-report.js: parseGasDiff
\* ====================================================================
DigitChars == <<"0", "1", "2", "3", "4", "5", "6", "7", "8", "9">>
IsDigit(c) == \E d \in 1..10 : DigitChars[d] = c
DigitVal(c) == (CHOOSE d \in 1..10 : DigitChars[d] = c) - 1
\* \s, and what trim() strips
IsSpace(c) == c \in {" ", "\t", "\r"}
\* what "." matches: anything but a line terminator
IsDot(c) == c # "\r"

\* parseInt of a run of decimal digits
RECURSIVE parseInt(_)
parseInt(s) ==
  IF Len(s) = 0 THEN 0
  ELSE 10 * parseInt(SubSeq(s, 1, Len(s) - 1)) + DigitVal(Last(s))

\* value.toString() of an integer
RECURSIVE Digits(_)
Digits(n) ==
  IF n < 10 THEN <<DigitChars[n + 1]>>
  ELSE Digits(n \div 10) \o <<DigitChars[(n % 10) + 1]>>

\* String.prototype.trim
Trim(s) ==
  LET keep == {i \in 1..Len(s) : ~IsSpace(s[i])}
  IN IF keep = {} THEN <<>>
     ELSE SubSeq(s, CHOOSE i \in keep : \A j \in keep : i <= j,
                    CHOOSE i \in keep : \A j \in keep : j <= i)

\* the sign group of the line pattern, part_000 line 201: ^([+-])
SignMatches(line) == Len(line) >= 1 /\ line[1] \in {"+", "-"}

\* the line pattern behind its sign group, part_000 line 201:
\* ([^:]+):([^(]+)\(\).*?(\d+)\s*$ matched against rest, which starts right after
\* the sign: null, or the captured groups
MatchAfterSign(sign, rest) ==
  LET n == Len(rest)
      colons == {i \in 1..n : rest[i] = ":"}
      c == CHOOSE i \in colons : \A j \in colons : i <= j
      parens == {i \in (c + 1)..n : rest[i] = "("}
      q == CHOOSE i \in parens : \A j \in parens : i <= j
      \* \s*$ : the last token that is not white space
      solid == {i \in 1..n : ~IsSpace(rest[i])}
      e == CHOOSE i \in solid : \A j \in solid : j <= i
      \* .*?(\d+) : the lazy prefix leaves the longest run of digits ending at e
      starts == {s \in (q + 2)..e : \A k \in s..e : IsDigit(rest[k])}
      s == CHOOSE i \in starts : \A j \in starts : i <= j
  IN IF /\ colons # {}
        /\ c >= 2
        /\ parens # {}
        /\ q >= c + 2
        /\ q + 1 <= n
        /\ rest[q + 1] = ")"
        /\ solid # {}
        /\ starts # {}
        /\ \A k \in (q + 2)..(s - 1) : IsDot(rest[k])
     THEN << [sign |-> sign,
              contract |-> SubSeq(rest, 1, c - 1),
              func |-> SubSeq(rest, c + 1, q - 1),
              newGas |-> SubSeq(rest, s, e)] >>
     ELSE <<>>

\* a reading of the pattern with the sign group optional: ^([+-]?)
changeMatchSignOptional(line) ==
  IF SignMatches(line) THEN MatchAfterSign(line[1], Tail(line))
  ELSE MatchAfterSign("", line)

\* line.match(/^([+-])([^:]+):([^(]+)\(\).*?(\d+)\s*$/), part_000 line 201
changeMatch(line) ==
  IF SignMatches(line) THEN MatchAfterSign(line[1], Tail(line)) ELSE <<>>

\* index after the white space starting at i
RECURSIVE SkipSpace(_, _)
SkipSpace(line, i) ==
  IF i <= Len(line) /\ IsSpace(line[i]) THEN SkipSpace(line, i + 1) ELSE i
\* index after the digits starting at i
RECURSIVE SkipDigits(_, _)
SkipDigits(line, i) ==
  IF i <= Len(line) /\ IsDigit(line[i]) THEN SkipDigits(line, i + 1) ELSE i

\* line.match(/(\d+)\s*->\s*(\d+)/), part_000 line 206: null, or group 1 of the
\* leftmost match
oldGasMatch(line) ==
  LET n == Len(line)
      ArrowAt(i) ==
        LET a == SkipSpace(line, SkipDigits(line, i))
            b == SkipSpace(line, a + 2)
        IN /\ IsDigit(line[i])
           /\ a + 1 <= n
           /\ line[a] = "-"
           /\ line[a + 1] = ">"
           /\ b <= n
           /\ IsDigit(line[b])
      hits == {i \in 1..n : ArrowAt(i)}
      i0 == CHOOSE i \in hits : \A j \in hits : i <= j
  IN IF hits = {} THEN <<>>
     ELSE <<SubSeq(line, i0, SkipDigits(line, i0) - 1)>>

\* the record pushed for a matching line, part_000 lines 203-219
ChangeRecord(line) ==
  LET m == changeMatch(line)[1]
      oldGas == oldGasMatch(line)
  IN [type |-> IF m.sign = "+" THEN "regression" ELSE "improvement",
      contract |-> Trim(m.contract),
      function |-> Trim(m.func),
      oldGas |-> IF oldGas # <<>> THEN <<parseInt(oldGas[1])>> ELSE <<>>,
      newGas |-> parseInt(m.newGas),
      gasChange |-> IF oldGas # <<>> THEN parseInt(m.newGas) - parseInt(oldGas[1])
                    ELSE parseInt(m.newGas)]

\* diffOutput.split('\n').filter(line => line.trim()), part_000 line 194
NonBlankLines(text) == SelectSeq(text, LAMBDA line : Trim(line) # <<>>)

\* parseGasDiff, part_000 lines 193-224
RECURSIVE ParseLines(_)
ParseLines(lines) ==
  IF Len(lines) = 0 THEN <<>>
  ELSE LET rest == ParseLines(SubSeq(lines, 1, Len(lines) - 1))
           line == Last(lines)
       IN IF changeMatch(line) # <<>> THEN Append(rest, ChangeRecord(line)) ELSE rest
parseGasDiff(text) == ParseLines(NonBlankLines(text))

\* ====================================================================
\* gas-report.js: formatting, table, summary, report
\* ====================================================================
DefaultLimit == 20
ViewAllThreshold == 20
ShortShaLen == 7

IconImprovement == "green"
IconRegression == "red"
IconNeutral == "white"

\* formatGasValue, part_000 lines 229-231: toString, then a comma before every
\* digit that is followed by a multiple of three digits up to the end of the run
\* (\B keeps the start of the run and the place after a minus sign free)
RECURSIVE Commas(_, _)
Commas(d, i) ==
  IF i > Len(d) THEN <<>>
  ELSE (IF i > 1 /\ (Len(d) - i + 1) % 3 = 0 THEN <<",">> ELSE <<>>)
       \o <<d[i]>> \o Commas(d, i + 1)
formatGasValue(value) ==
  (IF value < 0 THEN <<"-">> ELSE <<>>) \o Commas(Digits(Abs(value)), 1)

\* The Number type of the code is the IEEE 754 double: 52 fraction bits behind
\* the leading bit of the significand, taken here as 13 hexadecimal digits
FractionDigits == 13

\* a * 2^k for the least k >= 0 that makes it at least b
RECURSIVE ScaleUp(_, _)
ScaleUp(a, b) == IF a >= b THEN a ELSE ScaleUp(2 * a, b)

\* b * 2^k for the greatest k >= 0 that keeps it at most a
RECURSIVE ScaleDown(_, _)
ScaleDown(a, b) == IF 2 * b <= a THEN ScaleDown(a, 2 * b) ELSE b

\* n more hexadecimal digits of the quotient with remainder r and divisor B;
\* of the quotient only the low eight bits q are kept
RECURSIVE LongDivision(_, _, _, _)
LongDivision(r, q, B, n) ==
  IF n = 0 THEN [r |-> r, q |-> q]
  ELSE LongDivision((16 * r) % B, (16 * q + (16 * r) \div B) % 256, B, n - 1)

\* (a / b) * 100 in double arithmetic, 0 < a, 0 < b, compared with the exact
\* value 100a/b: TRUE when the double is the smaller one.  Both operations
\* round to the nearest double, ties to the even significand.
\*   A/B in [1, 2) is a/b scaled by a power of two;
\*   m is the 53-bit significand of a / b and err1 = m * B - A * 2^52 its
\*   rounding error in units of 1/B;
\*   100 * m has 59 bits when A/B < 32/25 and 60 bits otherwise, so the
\*   product drops s = 6 or 7 bits, with rounding error e2;
\*   the double minus the exact value has the sign of e2 * B + 100 * err1.
\* Every intermediate value stays below 2^31 for a <= 100000 and b <= 10^7.
DoubleBelowExact(a, b) ==
  LET A == ScaleUp(a, b)
      B == ScaleDown(a, b)
      d == LongDivision(A - B, 1, B, FractionDigits)
      up1 == 2 * d.r > B \/ (2 * d.r = B /\ d.q % 2 = 1)
      m == IF up1 THEN (d.q + 1) % 256 ELSE d.q
      err1 == IF up1 THEN B - d.r ELSE 0 - d.r
      pow == IF 25 * A < 32 * B THEN 64 ELSE 128
      P == 100 * m
      t == P % pow
      up2 == 2 * t > pow \/ (2 * t = pow /\ (P \div pow) % 2 = 1)
      e2 == IF up2 THEN pow - t ELSE 0 - t
  IN e2 * B + 100 * err1 < 0

\* Number.prototype.toFixed(2) of the double (num / den) * 100, den > 0: the
\* multiple of 0.01 nearest to the double, the larger one in magnitude when the
\* double is exactly half way, with the sign of the value kept (a negative value
\* that rounds to zero prints as -0.00).  The double is within 2^-51 of the
\* exact value 100 * num / den in relative terms, so it rounds like the exact
\* value unless the exact value is half way between two multiples of 0.01;
\* there the double decides, and it may lie below the half-way point
\* ((23 / 160) * 100 is 14.374999999999998 and prints as 14.37).
ToFixed2Percent(num, den) ==
  LET a == Abs(num)
      nearest == (2 * a * 10000 + den) \div (2 * den)
      halfWay == (2 * a * 10000) % (2 * den) = den
      h == IF halfWay /\ DoubleBelowExact(a, den) THEN nearest - 1 ELSE nearest
      frac == h % 100
  IN (IF num < 0 THEN <<"-">> ELSE <<>>)
     \o Digits(h \div 100) \o <<".">>
     \o <<DigitChars[(frac \div 10) + 1], DigitChars[(frac % 10) + 1]>>

\* calculatePercentageChange, part_000 lines 236-240 (oldVal: optional number)
calculatePercentageChange(oldVal, newVal) ==
  IF oldVal = <<>> \/ oldVal[1] = 0 THEN <<"N/A">>
  ELSE ToFixed2Percent(newVal - oldVal[1], oldVal[1]) \o <<"%">>

\* JavaScript truthiness of change.oldGas (null or a number)
Truthy(oldGas) == oldGas # <<>> /\ oldGas[1] # 0

\* one row of the table, part_000 lines 259-268
TableRow(change) ==
  LET icon == IF change.type = "improvement" THEN IconImprovement ELSE IconRegression
      sign == IF change.gasChange > 0 THEN <<"+">> ELSE <<>>
      diff == <<icon, " ">> \o sign \o formatGasValue(change.gasChange)
      percentage ==
        IF Truthy(change.oldGas)
        THEN <<" ", "(">> \o calculatePercentageChange(change.oldGas, change.newGas) \o <<")">>
        ELSE <<>>
  IN [contract |-> change.contract,
      function |-> change.function \o <<"(", ")">>,
      before |-> IF Truthy(change.oldGas) THEN formatGasValue(change.oldGas[1]) ELSE <<"New">>,
      after |-> formatGasValue(change.newGas),
      change |-> diff \o percentage]

\* the comparator with its operands swapped: smallest changes first
CompareAscending(a, b) == Abs(a.gasChange) - Abs(b.gasChange)

\* the comparator of the sort, part_000 line 251: negative when a goes first
Compare(a, b) == Abs(b.gasChange) - Abs(a.gasChange)

\* Array.prototype.sort with that comparator: stable, so an element goes behind
\* every earlier element it does not have to precede
InsertSorted(s, x) ==
  LET behind == {i \in 1..Len(s) : Compare(x, s[i]) < 0}
      at == IF behind = {} THEN Len(s) + 1
            ELSE CHOOSE i \in behind : \A j \in behind : i <= j
  IN SubSeq(s, 1, at - 1) \o <<x>> \o SubSeq(s, at, Len(s))
RECURSIVE SortChanges(_)
SortChanges(s) ==
  IF Len(s) = 0 THEN <<>>
  ELSE InsertSorted(SortChanges(SubSeq(s, 1, Len(s) - 1)), Last(s))

\* a table that is never cut to its limit
SliceNothing(s, lim) == s

\* changes.slice(0, limit), limit >= 0
Slice(s, lim) == SubSeq(s, 1, Min(lim, Len(s)))

\* the changes array after generateMarkdownTable, part_000 lines 246-251
ChangesAfterTable(chs) == IF Len(chs) = 0 THEN chs ELSE SortChanges(chs)

\* generateMarkdownTable, part_000 lines 245-275
generateMarkdownTable(chs, lim) ==
  IF Len(chs) = 0
  THEN [sentence |-> TRUE, rows |-> <<>>, note |-> <<>>]
  ELSE LET displayChanges == Slice(SortChanges(chs), lim)
       IN [sentence |-> FALSE,
           rows |-> [i \in 1..Len(displayChanges) |-> TableRow(displayChanges[i])],
           note |-> IF Len(chs) > lim
                    THEN <<[shown |-> lim, total |-> Len(chs)]>> ELSE <<>>]

\* the reduce without Math.abs
RECURSIVE SumSigned(_)
SumSigned(s) ==
  IF Len(s) = 0 THEN 0
  ELSE SumSigned(SubSeq(s, 1, Len(s) - 1)) + Last(s).gasChange

\* reduce((sum, c) => sum + Math.abs(c.gasChange), 0)
RECURSIVE SumAbs(_)
SumAbs(s) ==
  IF Len(s) = 0 THEN 0
  ELSE SumAbs(SubSeq(s, 1, Len(s) - 1)) + Abs(Last(s).gasChange)

\* generateSummary, part_000 lines 280-308
generateSummary(chs) ==
  LET improvements == SelectSeq(chs, LAMBDA c : c.type = "improvement")
      regressions == SelectSeq(chs, LAMBDA c : c.type = "regression")
      totalImprovement == SumAbs(improvements)
      totalRegression == SumAbs(regressions)
      netChange == totalRegression - totalImprovement
  IN [improvements |-> Len(improvements),
      regressions |-> Len(regressions),
      totalImprovement |-> totalImprovement,
      totalRegression |-> totalRegression,
      netChange |-> netChange,
      netIcon |-> IF netChange > 0 THEN IconRegression
                  ELSE IF netChange < 0 THEN IconImprovement ELSE IconNeutral,
      netText |-> IF netChange > 0 THEN <<"+">> \o formatGasValue(netChange) \o <<" ", "gas">>
                  ELSE IF netChange < 0 THEN formatGasValue(netChange) \o <<" ", "gas">>
                  ELSE <<"No change">>]

\* a || fallback for an optional string: absent and '' both give the fallback
OrElse(opt, fallback) == IF opt = <<>> \/ opt[1] = <<>> THEN fallback ELSE opt[1]

\* generateFooter, part_000 lines 313-318 (the timestamp is the clock's)
generateFooter(shortSha, fullCommitSha) ==
  [shown |-> IF shortSha = <<>> THEN <<"unknown">> ELSE shortSha,
   commit |-> fullCommitSha]

\* generateNoChangesReport, part_000 lines 323-331
generateNoChangesReport(baseBranch, headBranch, shortSha, fullCommitSha) ==
  [kind |-> "noChanges",
   baseBranch |-> baseBranch,
   headBranch |-> headBranch,
   summary |-> <<>>,
   table |-> <<>>,
   viewAll |-> <<>>,
   footer |-> generateFooter(shortSha, fullCommitSha)]

\* !diffOutput || diffOutput.trim().length === 0, part_000 line 368
IsBlankText(text) == \A i \in 1..Len(text) : Trim(text[i]) = <<>>

\* generateFullReport without its second early return
NothingParsedIgnored(chs) == FALSE

\* the second early return of generateFullReport, part_000 line 376
NothingParsed(chs) == Len(chs) = 0

\* generateFullReport, part_000 lines 361-408
generateFullReport(text, info) ==
  LET baseBranch == OrElse(info.baseBranch, <<"base">>)
      headBranch == OrElse(info.headBranch, <<"head">>)
      fullCommitSha == OrElse(info.commitSha, <<>>)
      shortSha == SubSeq(fullCommitSha, 1, Min(ShortShaLen, Len(fullCommitSha)))
      chs == parseGasDiff(text)
      sorted == ChangesAfterTable(chs)
  IN IF IsBlankText(text)
     THEN generateNoChangesReport(baseBranch, headBranch, shortSha, fullCommitSha)
     ELSE IF NothingParsed(chs)
     THEN generateNoChangesReport(baseBranch, headBranch, shortSha, fullCommitSha)
     ELSE [kind |-> "full",
           baseBranch |-> baseBranch,
           headBranch |-> headBranch,
           summary |-> <<generateSummary(chs)>>,
           table |-> <<generateMarkdownTable(chs, DefaultLimit)>>,
           viewAll |-> IF Len(sorted) > ViewAllThreshold
                       THEN <<generateMarkdownTable(sorted, Len(sorted))>> ELSE <<>>,
           footer |-> generateFooter(shortSha, fullCommitSha)]

\* ====================================================================
\* inputs of the gas report functions
\* ====================================================================
D1000 == <<"1", "0", "0", "0">>
D1200 == <<"1", "2", "0", "0">>
D500 == <<"5", "0", "0">>
D300 == <<"3", "0", "0">>
Arrow == <<" ", "-", ">", " ">>
TokenTransfer(sign) == sign \o <<"Token", ":", "transfer", "(", ")", " ">>
TokenApprove(sign) == sign \o <<"Token", ":", "approve", "(", ")", " ">>
Tf(sign) == sign \o <<"T", ":", "f", "(", ")", " ">>
Gas(body) == <<"(", "gas", ":", " ">> \o body \o <<")">>

Lines ==
  { \* the shape forge prints and the comment at part_000 lines 199-200 shows
    TokenTransfer(<<"+">>) \o Gas(D1000 \o Arrow \o D1200),
    TokenApprove(<<"-">>) \o Gas(D500 \o Arrow \o D300),
    Tf(<<"+">>) \o Gas(<<"1", "2", "3", "4", "5">>),
    \* the same lines ending in the integer
    TokenTransfer(<<"+">>) \o D1000 \o Arrow \o D1200,
    TokenApprove(<<"-">>) \o D500 \o Arrow \o D300,
    \* no sign
    TokenTransfer(<<>>) \o D1000 \o Arrow \o D1200,
    Tf(<<>>) \o <<"5">>,
    Tf(<<" ">>) \o <<"5">>,
    \* old gas 0, no old gas, a negative and a zero change, trailing white space
    Tf(<<"+">>) \o <<"0">> \o Arrow \o <<"5">>,
    Tf(<<"-">>) \o <<"5">>,
    Tf(<<"+">>) \o <<"7", "-", ">", "2", " ">>,
    Tf(<<"+">>) \o <<"5">> \o Arrow \o <<"5">>,
    \* |gasChange| 50, 500, 10
    <<"-", " ", "T", " ", ":", "g", "(", ")", " ", "5", "0">>,
    Tf(<<"+">>) \o D500,
    <<"-", "T", ":", "g", "(", ")", "1", "0">>,
    \* an arrow pair in front of the colon
    <<"+", "1", "-", ">", "2", ":", "f", "(", ")", " ", "9">>,
    \* lines that are no data
    <<>>,
    <<" ", "\t">>,
    <<"+", "T", ":", "f", " ", "5">>,
    <<"+", ":", "f", "(", ")", " ", "5">>,
    <<"+", "T", ":", "f", "(", "x", ")", " ", "5">>,
    Tf(<<"+">>) \o <<"gas">> }

\* n data lines with |gasChange| cycling through 0..3 and alternating signs
BigText(n) ==
  [i \in 1..n |-> Tf(IF i % 2 = 0 THEN <<"+">> ELSE <<"-">>) \o Digits(i % 4)]
BigTexts == {BigText(DefaultLimit), BigText(DefaultLimit + 1), BigText(BigLen)}

\* the three records with |gasChange| = 50, 500, 10
SortExample ==
  << <<"-", " ", "T", " ", ":", "g", "(", ")", " ", "5", "0">>,
     Tf(<<"+">>) \o D500,
     <<"-", "T", ":", "g", "(", ")", "1", "0">> >>
\* three records with equal |gasChange| behind a smaller one
TieExample ==
  << <<"-", "T", ":", "g", "(", ")", "1">>,
     Tf(<<"+">>) \o <<"0">> \o Arrow \o <<"5">>,
     Tf(<<"-">>) \o <<"5">>,
     Tf(<<"+">>) \o <<"7", "-", ">", "2", " ">> >>
\* percentages half way between two hundredths: 14.375 and -14.375, which the
\* double arithmetic puts below the half-way point, and 0.125, which is exact
RoundingExample ==
  << Tf(<<"+">>) \o <<"1", "6", "0">> \o Arrow \o <<"1", "8", "3">>,
     Tf(<<"-">>) \o <<"1", "6", "0">> \o Arrow \o <<"1", "3", "7">>,
     Tf(<<"+">>) \o <<"8", "0", "0">> \o Arrow \o <<"8", "0", "1">> >>
ExampleTexts == {SortExample, TieExample, RoundingExample}

Texts == NonEmptySeqsUpTo(Lines, MaxLines) \cup BigTexts \cup ExampleTexts
FileTexts == NonEmptySeqsUpTo(Lines, MaxFileLines) \cup BigTexts

Sha == <<"a", "1", "b", "2", "c", "3", "d", "4", "e">>
PrInfos ==
  { [baseBranch |-> <<>>, headBranch |-> <<>>, commitSha |-> <<>>],
    [baseBranch |-> << <<"main">> >>, headBranch |-> << <<"feature">> >>, commitSha |-> <<Sha>>],
    [baseBranch |-> << <<"release", "/", "1">> >>, headBranch |-> << <<>> >>, commitSha |-> <<>>] }

NoTable == [sentence |-> FALSE, rows |-> <<>>, note |-> <<>>]
NoSummary == generateSummary(<<>>)
NoReport == generateNoChangesReport(<<>>, <<>>, <<>>, <<>>)
NoPrInfo == [baseBranch |-> <<>>, headBranch |-> <<>>, commitSha |-> <<>>]

InitFnIdle ==
  /\ diffOutput = << <<>> >>
  /\ prInfo = NoPrInfo
  /\ stage = {}
  /\ parsed = <<>>
  /\ changes = <<>>
  /\ limit = 0
  /\ table = NoTable
  /\ summary = NoSummary
  /\ report = NoReport

InitFn ==
  /\ diffOutput \in Texts
  /\ prInfo = NoPrInfo
  /\ stage = {}
  /\ parsed = <<>>
  /\ changes = <<>>
  /\ limit = 0
  /\ table = NoTable
  /\ summary = NoSummary
  /\ report = NoReport

\* changes = parseGasDiff(diffOutput)
ParseGasDiff ==
  /\ stage = {}
  /\ parsed' = parseGasDiff(diffOutput)
  /\ changes' = parseGasDiff(diffOutput)
  /\ stage' = {"parse"}
  /\ UNCHANGED <<diffOutput, prInfo, limit, table, summary, report>>
  /\ UNCHANGED <<commentVars, cliVars>>

\* summary = generateSummary(changes)
GenerateSummary ==
  /\ "parse" \in stage
  /\ "summary" \notin stage
  /\ summary' = generateSummary(changes)
  /\ stage' = stage \cup {"summary"}
  /\ UNCHANGED <<diffOutput, prInfo, parsed, changes, limit, table, report>>
  /\ UNCHANGED <<commentVars, cliVars>>

Limits(chs) == 0..(MaxLines + 1) \cup {DefaultLimit, Len(chs)}

\* table = generateMarkdownTable(changes, limit), which sorts changes in place
GenerateMarkdownTable ==
  /\ "parse" \in stage
  /\ "table" \notin stage
  /\ \E lim \in Limits(changes) :
       /\ limit' = lim
       /\ table' = generateMarkdownTable(changes, lim)
  /\ changes' = ChangesAfterTable(changes)
  /\ stage' = stage \cup {"table"}
  /\ UNCHANGED <<diffOutput, prInfo, parsed, summary, report>>
  /\ UNCHANGED <<commentVars, cliVars>>

\* report = generateFullReport(diffOutput, prInfo)
GenerateFullReport ==
  /\ stage = {}
  /\ \E info \in PrInfos :
       /\ prInfo' = info
       /\ report' = generateFullReport(diffOutput, info)
  /\ stage' = {"report"}
  /\ UNCHANGED <<diffOutput, parsed, changes, limit, table, summary>>
  /\ UNCHANGED <<commentVars, cliVars>>

\* ====================================================================
\* gas-report.js: the CLI run
\* ====================================================================
ExitSuccess == 0
ExitFailure == 1

Commands == { <<>>, <<"generate">>, <<"help">> }
Envs ==
  { [BASE_BRANCH |-> <<>>, HEAD_BRANCH |-> <<>>, HEAD_SHA |-> <<>>],
    [BASE_BRANCH |-> << <<"dev">> >>, HEAD_BRANCH |-> << <<"fix">> >>, HEAD_SHA |-> <<Sha>>] }
\* a report left by an earlier run
StaleReport == generateNoChangesReport(<<"old">>, <<"old">>, <<>>, <<>>)

\* the prInfo object built at part_000 lines 425-429
PrInfoFromEnv(e) ==
  [baseBranch |-> <<OrElse(e.BASE_BRANCH, <<"main">>)>>,
   headBranch |-> <<OrElse(e.HEAD_BRANCH, <<"feature">>)>>,
   commitSha |-> e.HEAD_SHA]

InitCliIdle ==
  /\ command = <<>>
  /\ env = [BASE_BRANCH |-> <<>>, HEAD_BRANCH |-> <<>>, HEAD_SHA |-> <<>>]
  /\ diffFile = <<>>
  /\ reportFile = <<>>
  /\ reportFile0 = <<>>
  /\ diffRead = FALSE
  /\ pc = "cli"
  /\ exitCode = <<>>

InitCli ==
  /\ command \in Commands
  /\ env \in Envs
  /\ diffFile \in {<<>>} \cup {<<t>> : t \in FileTexts}
  /\ reportFile \in {<<>>, <<StaleReport>>}
  /\ reportFile0 = reportFile
  /\ diffRead = FALSE
  /\ pc = "cli"
  /\ exitCode = <<>>

\* CLI handling, part_000 lines 442-451
CLIHandling ==
  /\ pc = "cli"
  /\ \/ /\ command = <<"generate">>
        /\ pc' = "generateReportFromFile"
        /\ UNCHANGED exitCode
     \/ /\ command # <<"generate">>
        /\ pc' = "exited"
        /\ exitCode' = <<ExitFailure>>
  /\ UNCHANGED <<command, env, diffFile, reportFile, reportFile0, diffRead>>
  /\ UNCHANGED <<commentVars, fnVars>>

\* generateReportFromFile without the check for a missing gas-diff.txt: the
\* missing file is taken for an empty diff
GenerateReportFromFileUnchecked ==
  /\ pc = "generateReportFromFile"
  /\ diffRead' = TRUE
  /\ reportFile' = <<generateFullReport(IF diffFile = <<>> THEN << <<>> >> ELSE diffFile[1],
                                        PrInfoFromEnv(env))>>
  /\ exitCode' = <<ExitSuccess>>
  /\ pc' = "exited"
  /\ UNCHANGED <<command, env, diffFile, reportFile0>>
  /\ UNCHANGED <<commentVars, fnVars>>

\* generateReportFromFile, part_000 lines 414-439, and the end of the script
GenerateReportFromFile ==
  /\ pc = "generateReportFromFile"
  /\ \/ /\ diffFile = <<>>
        /\ exitCode' = <<ExitFailure>>
        /\ UNCHANGED <<reportFile, diffRead>>
     \/ /\ diffFile # <<>>
        /\ diffRead' = TRUE
        /\ reportFile' = <<generateFullReport(diffFile[1], PrInfoFromEnv(env))>>
        /\ exitCode' = <<ExitSuccess>>
  /\ pc' = "exited"
  /\ UNCHANGED <<command, env, diffFile, reportFile0>>
  /\ UNCHANGED <<commentVars, fnVars>>

\* ====================================================================
\* specifications
\* ====================================================================
\* one run of `node gas-report.js <command>`
Init == InitCli /\ InitFnIdle /\ InitCommentIdle
Next == CLIHandling \/ GenerateReportFromFile
Spec == Init /\ [][Next]_vars

\* the functions of gas-report.js applied to a diff text
InitFunctions == InitFn /\ InitCliIdle /\ InitCommentIdle
NextFn == ParseGasDiff \/ GenerateSummary \/ GenerateMarkdownTable \/ GenerateFullReport
SpecFn == InitFunctions /\ [][NextFn]_vars

\* postOrUpdateComment invoked again and again on one PR, one call after another
InitComments == InitComment /\ InitFnIdle /\ InitCliIdle
NextComment ==
  \E p \in Procs : FindBotComment(p, TRUE) \/ UpdateComment(p) \/ CreateComment(p)
SpecComment == InitComments /\ [][NextComment]_vars

\* ====================================================================
\* properties of the PR comment helper (SpecComment)
\* ====================================================================
\* the comment protocol's notion of a bot author: the account type or the login
\* marks the author as a bot
MarkedAsBot(user) ==
  \/ user.type = "Bot"
  \/ \E i \in 1..Len(user.login) : user.login[i] = "[bot]"

BotMarkerComments(list, m) ==
  {i \in 1..Len(list) : MarkedAsBot(list[i].user) /\ Includes(list[i].body, m)}

AtMostOneBotComment(list, m) == Cardinality(BotMarkerComments(list, m)) <= 1

\* C1: if the PR starts with at most one bot-authored comment whose body
\* contains the marker, then after any number of postOrUpdateComment invocations
\* run one after another (each body containing the marker) it still holds at
\* most one such comment.
C1_AtMostOneComment ==
  AtMostOneBotComment(comments0, marker) => AtMostOneBotComment(comments, marker)

\* C1, second half: an invocation that finds such a comment on the PR updates
\* it in place and creates nothing.
C1_UpdatesInPlace ==
  [][\A p \in Procs :
       (pcC[p] = "found" /\ pcC'[p] = "idle" /\ BotMarkerComments(comments, marker) # {})
         => Len(comments') = Len(comments)]_vars

\* C1 for the copy at part_000 alone
C1_AtMostOneComment_Part000 ==
  copy = "part_000" => C1_AtMostOneComment

\* C4: findBotComment returns the first comment in list order whose author is
\* marked as a bot by account type or by login and whose body contains the
\* marker, and nothing when there is none, in both copies of workflow-utils.
FirstBotMarkerComment(list, m) ==
  LET hits == BotMarkerComments(list, m)
  IN IF hits = {} THEN <<>>
     ELSE <<list[CHOOSE i \in hits : \A j \in hits : i <= j]>>
C4_FindBotComment ==
  \A p \in Procs :
    pcC[p] = "found" => existing[p] = FirstBotMarkerComment(comments, marker)

\* C4 for the copy at part_000 alone
C4_FindBotComment_Part000 ==
  copy = "part_000" => C4_FindBotComment

\* ====================================================================
\* properties of parseGasDiff (SpecFn)
\* ====================================================================
\* the diff-line shape behind the sign, stated on the tokens of the line:
\* a non-empty contract name up to the first colon, a non-empty function name up
\* to the first opening parenthesis, "()", any text, and a run of digits followed
\* only by white space up to the end of the line
DataShape(rest) ==
  \E c \in 2..Len(rest) : \E q \in (c + 2)..(Len(rest) - 1) :
    /\ rest[c] = ":"
    /\ \A i \in 1..(c - 1) : rest[i] # ":"
    /\ rest[q] = "("
    /\ \A i \in (c + 1)..(q - 1) : rest[i] # "("
    /\ rest[q + 1] = ")"
    /\ \E s \in (q + 2)..Len(rest) : \E e \in s..Len(rest) :
         /\ \A i \in s..e : IsDigit(rest[i])
         /\ \A i \in (e + 1)..Len(rest) : IsSpace(rest[i])

HasSign(line) == line # <<>> /\ line[1] \in {"+", "-"}
SignedDataLine(line) == HasSign(line) /\ DataShape(Tail(line))
UnsignedDataLine(line) == ~HasSign(line) /\ DataShape(line)
TypeOfSign(c) == IF c = "+" THEN "regression" ELSE "improvement"

\* a line '<sign><Contract>:<function>() (gas: <old> -> <new>)'
IsGasArrowLine(line) ==
  /\ Len(line) >= 18
  /\ line[1] \in {"+", "-"}
  /\ ~IsDigit(line[2]) /\ ~IsSpace(line[2]) /\ line[2] \notin {":", "(", ")"}
  /\ ~IsDigit(line[4]) /\ ~IsSpace(line[4]) /\ line[4] \notin {":", "(", ")"}
  /\ <<line[3], line[5], line[6], line[7], line[8], line[9], line[10], line[11]>>
       = <<":", "(", ")", " ", "(", "gas", ":", " ">>
  /\ IsDigit(line[12])
  /\ LET a == SkipDigits(line, 12)
         b == a + 4
     IN /\ b <= Len(line)
        /\ SubSeq(line, a, a + 3) = <<" ", "-", ">", " ">>
        /\ IsDigit(line[b])
        /\ SkipDigits(line, b) = Len(line)
        /\ Last(line) = ")"
ArrowOld(line) == parseInt(SubSeq(line, 12, SkipDigits(line, 12) - 1))
ArrowNew(line) == parseInt(SubSeq(line, SkipDigits(line, 12) + 4, Len(line) - 1))

\* C2: a diff line '<sign><Contract>:<function>() (gas: <old> -> <new>)' yields
\* exactly one change record, with type regression for '+' and improvement for
\* '-', oldGas = old, newGas = new and gasChange = new - old.
C2_GasArrowLineParsed ==
  ("parse" \in stage /\ Len(diffOutput) = 1 /\ IsGasArrowLine(diffOutput[1]))
    => /\ Len(parsed) = 1
       /\ parsed[1].type = TypeOfSign(diffOutput[1][1])
       /\ parsed[1].oldGas = <<ArrowOld(diffOutput[1])>>
       /\ parsed[1].newGas = ArrowNew(diffOutput[1])
       /\ parsed[1].gasChange = ArrowNew(diffOutput[1]) - ArrowOld(diffOutput[1])

\* C3 as stated: a line with no leading '+' or '-' that otherwise has the shape
\* '<Contract>:<function>()...<integer>' produces one change record, of type
\* improvement.
C3_SignOptional ==
  ("parse" \in stage /\ Len(diffOutput) = 1 /\ UnsignedDataLine(diffOutput[1]))
    => (Len(parsed) = 1 /\ parsed[1].type = "improvement")

\* C3 amended: the leading sign is required.  The records are exactly those of
\* the lines '<sign><Contract>:<function>()...<integer>' that start with '+' or
\* '-', in order, with type regression for '+' and improvement for '-'; a line
\* of that shape with no leading sign produces no record.
C3_SignRequired ==
  "parse" \in stage =>
    LET data == SelectSeq(diffOutput, SignedDataLine)
    IN /\ Len(parsed) = Len(data)
       /\ \A i \in 1..Len(data) : parsed[i].type = TypeOfSign(data[i][1])

\* a line of the shape without its sign has been parsed, and gave no record
C3_Witness ==
  /\ "parse" \in stage
  /\ \E i \in 1..Len(diffOutput) : UnsignedDataLine(diffOutput[i])
  /\ \E i \in 1..Len(diffOutput) :
       SignedDataLine(diffOutput[i]) /\ diffOutput[i][1] = "-"
  /\ Len(parsed) = 1
  /\ parsed[1].type = "improvement"

\* ====================================================================
\* properties of the report functions (SpecFn)
\* ====================================================================
\* the branch name a report must show for a name given in prInfo
GivenName(opt) == opt # <<>> /\ opt[1] # <<>>
NoDataLine(text) == \A i \in 1..Len(text) : ~SignedDataLine(text[i])
AllBlank(text) == \A i \in 1..Len(text) : \A k \in 1..Len(text[i]) : IsSpace(text[i][k])

\* C5: whenever the diff text yields no change record (it is empty or blank, or
\* none of its lines matches the diff-line pattern) generateFullReport returns the
\* "no changes" report, which shows the given base and head branch names verbatim
\* and has no summary and no table.
C5_NoChangesReport ==
  ("report" \in stage /\ NoDataLine(diffOutput))
    => /\ report.kind = "noChanges"
       /\ GivenName(prInfo.baseBranch) => report.baseBranch = prInfo.baseBranch[1]
       /\ GivenName(prInfo.headBranch) => report.headBranch = prInfo.headBranch[1]
       /\ report.summary = <<>>
       /\ report.table = <<>>
       /\ report.viewAll = <<>>

\* a text that is not blank and has no data line gave the "no changes" report
\* with both branch names given
C5_Witness ==
  /\ "report" \in stage
  /\ NoDataLine(diffOutput)
  /\ ~AllBlank(diffOutput)
  /\ GivenName(prInfo.baseBranch)
  /\ GivenName(prInfo.headBranch)
  /\ report.kind = "noChanges"
  /\ report.baseBranch = <<"main">>
  /\ report.headBranch = <<"feature">>

\* an all-blank text gave the "no changes" report
C5_WitnessBlank ==
  /\ "report" \in stage
  /\ AllBlank(diffOutput)
  /\ Len(diffOutput) = 2
  /\ report.kind = "noChanges"

AbsOf(c) == Abs(c.gasChange)
Magnitudes(s) == [i \in 1..Len(s) |-> AbsOf(s[i])]
WithMagnitude(s, k) == SelectSeq(s, LAMBDA c : AbsOf(c) = k)

\* C6: on a non-empty change sequence generateMarkdownTable emits its rows in
\* descending order of abs(gasChange), and records with equal abs(gasChange)
\* keep their original relative order.
C6_SortedStable ==
  ("table" \in stage /\ Len(parsed) > 0)
    => /\ Len(changes) = Len(parsed)
       /\ \A i \in 1..Len(table.rows) : table.rows[i] = TableRow(changes[i])
       /\ \A i \in 1..(Len(changes) - 1) : AbsOf(changes[i]) >= AbsOf(changes[i + 1])
       /\ \A i \in 1..Len(parsed) :
            WithMagnitude(changes, AbsOf(parsed[i])) = WithMagnitude(parsed, AbsOf(parsed[i]))

\* the records with |gasChange| = 50, 500, 10 are rendered in the order 500, 50, 10
C6_Witness ==
  /\ "table" \in stage
  /\ Magnitudes(parsed) = <<50, 500, 10>>
  /\ Len(table.rows) = 3
  /\ [i \in 1..3 |-> table.rows[i].after] = << <<"5", "0", "0">>, <<"5", "0">>, <<"1", "0">> >>

\* three different records of equal |gasChange| keep their order behind a move
C6_WitnessTie ==
  /\ "table" \in stage
  /\ Magnitudes(parsed) = <<1, 5, 5, 5>>
  /\ Len(table.rows) = 4
  /\ changes = <<parsed[2], parsed[3], parsed[4], parsed[1]>>

\* C7: generateMarkdownTable(changes, limit) renders min(limit, number of changes)
\* rows and appends the "Showing top <limit> changes out of <total> total" note
\* exactly when there are more changes than limit; in the full report the
\* default table shows at most 20 rows, with the note when there are more, and
\* the "view all" block, present when there are more than 20 changes, shows all
\* of them with no note.
C7_RowsAndNote ==
  /\ "table" \in stage =>
       /\ Len(table.rows) = Min(limit, Len(parsed))
       /\ (table.note # <<>>) <=> (Len(parsed) > limit)
       /\ table.note # <<>> => table.note[1] = [shown |-> limit, total |-> Len(parsed)]
  /\ ("report" \in stage /\ report.kind = "full") =>
       LET n == Len(SelectSeq(diffOutput, SignedDataLine))
       IN /\ Len(report.table[1].rows) = Min(DefaultLimit, n)
          /\ (report.table[1].note # <<>>) <=> (n > DefaultLimit)
          /\ (report.viewAll # <<>>) <=> (n > DefaultLimit)
          /\ report.viewAll # <<>> =>
               /\ Len(report.viewAll[1].rows) = n
               /\ report.viewAll[1].note = <<>>

\* the report of BigLen records: 20 rows and the note, and all rows with no note
\* in the "view all" block
C7_Witness ==
  /\ "report" \in stage
  /\ Len(diffOutput) = BigLen
  /\ report.kind = "full"
  /\ Len(report.table[1].rows) = DefaultLimit
  /\ report.table[1].note = <<[shown |-> DefaultLimit, total |-> BigLen]>>
  /\ report.viewAll # <<>>
  /\ Len(report.viewAll[1].rows) = BigLen
  /\ report.viewAll[1].note = <<>>

\* the sum of |gasChange| over the records of one type, taken over the set of
\* their positions
RECURSIVE SumAt(_, _)
SumAt(s, I) ==
  IF I = {} THEN 0
  ELSE LET i == CHOOSE x \in I : TRUE IN AbsOf(s[i]) + SumAt(s, I \ {i})
OfType(s, t) == {i \in 1..Len(s) : s[i].type = t}

\* C8: generateSummary counts the records of each type (the two counts add up to
\* the number of records), sums abs(gasChange) per type, takes netChange =
\* totalRegression - totalImprovement, and picks the indicator by the sign of
\* netChange alone; the result does not depend on the order of the records.
C8_Summary ==
  "summary" \in stage =>
    LET imp == OfType(parsed, "improvement")
        reg == OfType(parsed, "regression")
        net == SumAt(parsed, reg) - SumAt(parsed, imp)
    IN /\ summary.improvements = Cardinality(imp)
       /\ summary.regressions = Cardinality(reg)
       /\ summary.improvements + summary.regressions = Len(parsed)
       /\ summary.totalImprovement = SumAt(parsed, imp)
       /\ summary.totalRegression = SumAt(parsed, reg)
       /\ summary.netChange = net
       /\ net > 0 => summary.netIcon = IconRegression /\ summary.netText[1] = "+"
       /\ net < 0 => summary.netIcon = IconImprovement /\ summary.netText[1] = "-"
       /\ net = 0 => summary.netIcon = IconNeutral /\ summary.netText = <<"No change">>

\* a summary of records of both types, one with a negative gasChange, taken
\* after the table has reordered them
C8_Witness ==
  /\ "summary" \in stage
  /\ "table" \in stage
  /\ changes # parsed
  /\ summary.improvements > 0
  /\ summary.regressions > 0
  /\ summary.netChange < 0
  /\ \E i \in 1..Len(parsed) : parsed[i].gasChange < 0

\* C9: in every rendered row the Before cell shows 'New' exactly when the
\* record's oldGas is absent and the formatted old gas value whenever it is known,
\* and the Change cell carries a percentage suffix exactly when oldGas is known,
\* also for an old gas value of 0.
HasPercentage(cell) == Last(cell) = ")"
C9_BeforeAndPercentage ==
  "table" \in stage =>
    \A i \in 1..Len(table.rows) :
      /\ (table.rows[i].before = <<"New">>) <=> (changes[i].oldGas = <<>>)
      /\ changes[i].oldGas # <<>> => table.rows[i].before = formatGasValue(changes[i].oldGas[1])
      /\ HasPercentage(table.rows[i].change) <=> (changes[i].oldGas # <<>>)

\* C9 for the records whose old gas value is not 0
C9_BeforeAndPercentage_NonZero ==
  "table" \in stage =>
    \A i \in 1..Len(table.rows) :
      changes[i].oldGas # <<0>> =>
        /\ (table.rows[i].before = <<"New">>) <=> (changes[i].oldGas = <<>>)
        /\ changes[i].oldGas # <<>> => table.rows[i].before = formatGasValue(changes[i].oldGas[1])
        /\ HasPercentage(table.rows[i].change) <=> (changes[i].oldGas # <<>>)

\* ====================================================================
\* properties of the CLI run (Spec)
\* ====================================================================
\* C10: with subcommand 'generate' and gas-diff.txt present the run writes
\* gas-report.md and ends with exit code 0; with 'generate' and gas-diff.txt
\* missing it ends with a non-zero exit code and gas-report.md is never written
\* or modified; with any other or no subcommand it ends with a non-zero exit code
\* without reading gas-diff.txt or writing gas-report.md.
C10_CliOutcome ==
  /\ (command # <<"generate">> \/ diffFile = <<>>) => reportFile = reportFile0
  /\ command # <<"generate">> => ~diffRead
  /\ pc = "exited" =>
       /\ exitCode # <<>>
       /\ (command = <<"generate">> /\ diffFile # <<>>) =>
            /\ exitCode = <<0>>
            /\ diffRead
            /\ reportFile # <<>>
            /\ reportFile # reportFile0
            /\ reportFile[1].kind = (IF NoDataLine(diffFile[1]) THEN "noChanges" ELSE "full")
       /\ (command = <<"generate">> /\ diffFile = <<>>) => exitCode[1] # 0
       /\ command # <<"generate">> => exitCode[1] # 0

\* 'generate' with gas-diff.txt missing has ended, with a report of an earlier
\* run still in place
C10_Witness ==
  /\ pc = "exited"
  /\ command = <<"generate">>
  /\ diffFile = <<>>
  /\ exitCode = <<1>>
  /\ reportFile0 = <<StaleReport>>
  /\ reportFile = <<StaleReport>>

\* 'generate' with a diff of data lines has ended with a full report written
C10_WitnessWritten ==
  /\ pc = "exited"
  /\ command = <<"generate">>
  /\ diffFile # <<>>
  /\ exitCode = <<0>>
  /\ reportFile # <<>>
  /\ reportFile[1].kind = "full"

\* ====================================================================
\* two CI runs calling postOrUpdateComment on one PR at the same time
\* ====================================================================
\* Each invocation awaits listComments (part_000 line 102) and then createComment
\* or updateComment (lines 153, 162); the steps of two invocations, which run in
\* separate workflow runs and share nothing but the PR, may interleave freely.
NextRace ==
  \E p \in Procs : FindBotComment(p, FALSE) \/ UpdateComment(p) \/ CreateComment(p)
SpecRace == InitComments /\ [][NextRace]_vars

\* C11: when two postOrUpdateComment invocations for the same PR and marker
\* interleave their steps, starting from a PR with no bot comment containing the
\* marker, the PR ends with at most one bot comment containing the marker
\* (stated for the copy at part_000, whose findBotComment meets its contract).
C11_RaceAtMostOneComment ==
  ( /\ copy = "part_000"
    /\ BotMarkerComments(comments0, marker) = {}
    /\ \A p \in Procs : pcC[p] = "idle" )
    => AtMostOneBotComment(comments, marker)

====
